---- MODULE Spec2Model ----
(***************************************************************************)
(* Model of testingCcascade(sample1, sample2, alpha, paired) from          *)
(* statistical_testing_cascade_function_updated.py.                        *)
(*                                                                         *)
(* One call is executed statement by statement.  The scipy.stats           *)
(* primitives are external: an invocation answers with a p-value or        *)
(* raises, nondeterministically, but the same primitive on the same data   *)
(* answers the same way again (the primitives are deterministic).          *)
(* p-values and alpha are integers on the scale 0..PMax.                   *)
(***************************************************************************)
EXTENDS Integers, Sequences, FiniteSets

\* ---------------------------------------------------------------- bounds
NSamples == 3      \* number of distinct samples a caller can pass
PMax == 3          \* p-values range over 0..PMax, alpha over 1..PMax-1

\* ---------------------------------------------------------------- inputs
SampleLen(k) == 2 + (k % 2)
SampleKind(k) == IF k % 3 = 0 THEN "list" ELSE "ndarray"
Sample(k) == [kind |-> SampleKind(k), data |-> [i \in 1..SampleLen(k) |-> k * i]]
Samples == {Sample(k) : k \in 1..NSamples}
Alphas == 1..(PMax - 1)
PValues == 0..PMax

\* What a primitive invocation can do: answer a p-value, or raise.
Answer(v) == [ok |-> TRUE, pvalue |-> v]
Raised == [ok |-> FALSE, pvalue |-> 0]
AllAnswers == {Answer(v) : v \in PValues} \cup {Raised}

NoOutcome == [kind |-> "none", value |-> <<>>, err |-> ""]
NoSample == [kind |-> "ndarray", data |-> <<>>]
NoRef == [set |-> FALSE, input |-> <<>>, outcome |-> NoOutcome, log |-> <<>>]

VARIABLES
    pc,                 \* position in the function; "idle", "returned", "raised" between calls
    sample1, sample2, alpha, paired,           \* the arguments of the current call
    p1, p2, p, normality, homoscedasticity, sigTest, diff,   \* its locals
    assigned,           \* names of the locals bound so far in this call
    consulted,          \* names of the locals read so far in this call
    log,                \* the primitive invocations of this call, in order
    outcome,            \* how the current call ended
    ref                 \* one earlier completed call, kept for comparison

args == <<sample1, sample2, alpha, paired>>
locals == <<p1, p2, p, normality, homoscedasticity, sigTest, diff>>
vars == <<pc, sample1, sample2, alpha, paired, p1, p2, p, normality,
          homoscedasticity, sigTest, diff, assigned, consulted, log, outcome, ref>>

Finished == pc \in {"returned", "raised"}

LocalNames == {"p1", "p2", "p", "normality", "homoscedasticity", "sigTest", "diff"}

\* ------------------------------------------------------------ primitives
\* Earlier invocations whose answer a deterministic primitive must repeat.
Known(prim, vals) ==
    {log[i].res : i \in {j \in DOMAIN log : log[j].prim = prim /\ log[j].vals = vals}}
    \cup {ref.log[i].res :
            i \in {j \in DOMAIN ref.log : ref.log[j].prim = prim /\ ref.log[j].vals = vals}}

Answers(prim, vals) ==
    IF Known(prim, vals) # {} THEN Known(prim, vals) ELSE AllAnswers

Invocation(prim, operands, vals, res) ==
    [prim |-> prim, operands |-> operands, vals |-> vals, res |-> res]

\* Variant: the exception is swallowed and whatever p and sigTest hold is returned.
RaiseAsPartialReturn(err) ==
    /\ pc' = "returned"
    /\ outcome' = [kind |-> "return", value |-> <<p, sigTest>>, err |-> ""]

\* An exception leaves the function: nothing is returned.
Raise(err) ==
    /\ pc' = "raised"
    /\ outcome' = [kind |-> "error", value |-> <<>>, err |-> err]

\* ------------------------------------------------------------------ Init
Init ==
    /\ pc = "idle"
    /\ sample1 = NoSample /\ sample2 = NoSample
    /\ alpha = 1 /\ paired = FALSE
    /\ p1 = 0 /\ p2 = 0 /\ p = 0
    /\ normality = FALSE /\ homoscedasticity = FALSE
    /\ sigTest = "" /\ diff = <<>>
    /\ assigned = {}
    /\ consulted = {}
    /\ log = <<>>
    /\ outcome = NoOutcome
    /\ ref = NoRef

\* A caller invokes the function: fresh frame, arguments bound.  The call
\* that has just ended may be kept for comparison when the new call repeats
\* its arguments; what was kept is dropped when the arguments change.
Call ==
    /\ pc = "idle" \/ Finished
    /\ \E s1 \in Samples, s2 \in Samples, a \in Alphas, pr \in BOOLEAN :
          /\ sample1' = s1 /\ sample2' = s2 /\ alpha' = a /\ paired' = pr
          /\ ref' \in {NoRef}
                 \cup {r \in {ref} : r.set /\ r.input = <<s1, s2, a, pr>>}
                 \cup {r \in {[set |-> TRUE, input |-> args, outcome |-> outcome, log |-> log]} :
                          Finished /\ r.input = <<s1, s2, a, pr>>}
    /\ pc' = "L30"
    /\ p1' = 0 /\ p2' = 0 /\ p' = 0
    /\ normality' = FALSE /\ homoscedasticity' = FALSE
    /\ sigTest' = "" /\ diff' = <<>>
    /\ assigned' = {}
    /\ consulted' = {}
    /\ log' = <<>>
    /\ outcome' = NoOutcome

\* Variant: the pairing flag tested the wrong way round.
BranchInverted ==
    /\ pc = "L30"
    /\ pc' = IF paired THEN "L33" ELSE "L75"
    /\ UNCHANGED <<args, locals, assigned, consulted, log, outcome, ref>>

\* line 30 / line 74: the pairing flag selects the branch
Branch ==
    /\ pc = "L30"
    /\ pc' = IF ~paired THEN "L33" ELSE "L75"
    /\ UNCHANGED <<args, locals, assigned, consulted, log, outcome, ref>>

\* ------------------------------------------------- decisions of the code
\* Variant: the verdict is computed on a first call only and left False on a repeat.
NormalityUnpairedFirstCallOnly(x1, x2, a) == (x1 > a) /\ (x2 > a) /\ ~ref.set

\* line 36: (p1 > alpha) and (p2> alpha)
NormalityUnpaired(x1, x2, a) == (x1 > a) /\ (x2 > a)

\* Variant: p <= alpha rejects equal variances.
HomoscedasticStrict(x, a) == IF x <= a THEN FALSE ELSE TRUE

\* lines 46-49: p < alpha -> False, else True
Homoscedastic(x, a) == IF x < a THEN FALSE ELSE TRUE

\* Variant: p <= alpha rejects normality of the differences.
NormalityPairedStrict(x, a) == IF x <= a THEN FALSE ELSE TRUE

\* lines 85-88: p < alpha -> False, else True
NormalityPaired(x, a) == IF x < a THEN FALSE ELSE TRUE

\* Variant: only a shorter first sample is rejected.
LengthsDifferShorter(s1, s2) == Len(s1.data) < Len(s2.data)

\* line 75: len(sample1) != len(sample2)
LengthsDiffer(s1, s2) == Len(s1.data) # Len(s2.data)

\* line 79: sample1 - sample2 is undefined for two Python lists
Subtractable(s1, s2) == ~(s1.kind = "list" /\ s2.kind = "list")

\* line 79: element-wise difference
Difference(s1, s2) == [i \in 1..Len(s1.data) |-> s1.data[i] - s2.data[i]]

\* Variant: both operands are always evaluated (as with `&`).
ReadsAndEager == {"normality", "homoscedasticity"}

\* `normality and X` evaluates X only when normality is true
ReadsAnd == IF normality THEN {"normality", "homoscedasticity"} ELSE {"normality"}

Reads43 == {"normality"}
Cond43Always == TRUE                         \* variant: Bartlett run unconditionally
Cond43 == normality                          \* line 43
Reads54 == ReadsAnd
Cond54 == normality /\ homoscedasticity      \* line 54
Reads61 == ReadsAnd
Cond61 == normality /\ ~homoscedasticity     \* line 61
Reads67 == {"normality"}
Cond67 == ~normality                         \* line 67
Reads93 == {"normality"}
Cond93 == normality                          \* line 93
Reads99 == {"normality"}
Cond99 == ~normality                         \* line 99

\* Variant: the final test's p-value is dropped and p keeps what it held.
FinalPStale(res) == p

\* The value a final-test branch leaves in p: the primitive's p-value.
FinalP(res) == res.pvalue

\* What the return statement hands back: [p, sigTest].
Returned == [kind |-> "return", value |-> <<p, sigTest>>, err |-> ""]

\* ------------------------------------------------------ statement shapes
\* x = stats.<prim>(...).pvalue, where x is p1 or p2
Diagnose(at, next, prim, operands, vals, target) ==
    /\ pc = at
    /\ consulted' = consulted \cup ({operands[i] : i \in DOMAIN operands} \cap LocalNames)
    /\ \E r \in Answers(prim, vals) :
          /\ log' = Append(log, Invocation(prim, operands, vals, r))
          /\ IF r.ok
             THEN /\ pc' = next
                  /\ assigned' = assigned \cup {target}
                  /\ p1' = IF target = "p1" THEN r.pvalue ELSE p1
                  /\ p2' = IF target = "p2" THEN r.pvalue ELSE p2
                  /\ p' = IF target = "p" THEN r.pvalue ELSE p
                  /\ UNCHANGED outcome
             ELSE /\ Raise(prim)
                  /\ UNCHANGED <<p1, p2, p, assigned>>
    /\ UNCHANGED <<args, normality, homoscedasticity, sigTest, diff, ref>>

\* if <cond>: sigTest = <label>; p = stats.<prim>(...).pvalue
FinalTest(at, next, reads, cond, label, prim, operands, vals) ==
    /\ pc = at
    /\ IF ~(reads \subseteq assigned)
       THEN /\ Raise("UnboundLocalError")
            /\ consulted' = consulted \cup reads
            /\ UNCHANGED <<sigTest, p, assigned, log>>
       ELSE IF ~cond
       THEN /\ pc' = next
            /\ consulted' = consulted \cup reads
            /\ UNCHANGED <<sigTest, p, assigned, log, outcome>>
       ELSE /\ sigTest' = label
            /\ consulted' = consulted \cup reads
                                \cup ({operands[i] : i \in DOMAIN operands} \cap LocalNames)
            /\ \E r \in Answers(prim, vals) :
                  /\ log' = Append(log, Invocation(prim, operands, vals, r))
                  /\ IF r.ok
                     THEN /\ p' = FinalP(r)
                          /\ assigned' = assigned \cup {"sigTest", "p"}
                          /\ pc' = next
                          /\ UNCHANGED outcome
                     ELSE /\ Raise(prim)
                          /\ assigned' = assigned \cup {"sigTest"}
                          /\ UNCHANGED p
    /\ UNCHANGED <<args, p1, p2, normality, homoscedasticity, diff, ref>>

\* return [p, sigTest]
Return(at) ==
    /\ pc = at
    /\ consulted' = consulted \cup {"p", "sigTest"}
    /\ IF {"p", "sigTest"} \subseteq assigned
       THEN /\ pc' = "returned"
            /\ outcome' = Returned
       ELSE Raise("UnboundLocalError")
    /\ UNCHANGED <<args, locals, assigned, log, ref>>

\* ----------------------------------------------------- unpaired, 33..71
ShapiroSample1 ==
    Diagnose("L33", "L34", "shapiro", <<"sample1">>, <<sample1.data>>, "p1")

ShapiroSample2 ==
    Diagnose("L34", "L36", "shapiro", <<"sample2">>, <<sample2.data>>, "p2")

ClassifyUnpaired ==
    /\ pc = "L36"
    /\ normality' = NormalityUnpaired(p1, p2, alpha)
    /\ assigned' = assigned \cup {"normality"}
    /\ consulted' = consulted \cup {"p1", "p2"}
    /\ pc' = "L43"
    /\ UNCHANGED <<args, p1, p2, p, homoscedasticity, sigTest, diff, log, outcome, ref>>

\* lines 43-44: if normality: p = stats.bartlett(sample1, sample2).pvalue
Bartlett ==
    /\ pc = "L43"
    /\ consulted' = consulted \cup Reads43
    /\ IF ~(Reads43 \subseteq assigned)
       THEN /\ Raise("UnboundLocalError")
            /\ UNCHANGED <<p, assigned, log>>
       ELSE IF ~Cond43
       THEN /\ pc' = "L54"
            /\ UNCHANGED <<p, assigned, log, outcome>>
       ELSE \E r \in Answers("bartlett", <<sample1.data, sample2.data>>) :
              /\ log' = Append(log, Invocation("bartlett", <<"sample1", "sample2">>,
                                               <<sample1.data, sample2.data>>, r))
              /\ IF r.ok
                 THEN /\ p' = r.pvalue
                      /\ assigned' = assigned \cup {"p"}
                      /\ pc' = "L46"
                      /\ UNCHANGED outcome
                 ELSE /\ Raise("bartlett")
                      /\ UNCHANGED <<p, assigned>>
    /\ UNCHANGED <<args, p1, p2, normality, homoscedasticity, sigTest, diff, ref>>

ClassifyVariance ==
    /\ pc = "L46"
    /\ homoscedasticity' = Homoscedastic(p, alpha)
    /\ assigned' = assigned \cup {"homoscedasticity"}
    /\ consulted' = consulted \cup {"p"}
    /\ pc' = "L54"
    /\ UNCHANGED <<args, p1, p2, p, normality, sigTest, diff, log, outcome, ref>>

TTest ==
    FinalTest("L54", "L61", Reads54, Cond54, "t-test", "ttest_ind_equal_var",
              <<"sample1", "sample2">>, <<sample1.data, sample2.data>>)

WelchTest ==
    FinalTest("L61", "L67", Reads61, Cond61, "Welch-test", "ttest_ind_unequal_var",
              <<"sample1", "sample2">>, <<sample1.data, sample2.data>>)

UTest ==
    FinalTest("L67", "L71", Reads67, Cond67, "U-test", "mannwhitneyu",
              <<"sample1", "sample2">>, <<sample1.data, sample2.data>>)

ReturnUnpaired == Return("L71")

\* ------------------------------------------------------ paired, 74..103
CheckLengths ==
    /\ pc = "L75"
    /\ IF LengthsDiffer(sample1, sample2)
       THEN Raise("Unable to perform paired tests, unequal sample sizes.")
       ELSE pc' = "L79" /\ UNCHANGED outcome
    /\ UNCHANGED <<args, locals, assigned, consulted, log, ref>>

ComputeDiff ==
    /\ pc = "L79"
    /\ IF Subtractable(sample1, sample2)
       THEN /\ diff' = Difference(sample1, sample2)
            /\ assigned' = assigned \cup {"diff"}
            /\ pc' = "L83"
            /\ UNCHANGED outcome
       ELSE /\ Raise("TypeError")
            /\ UNCHANGED <<diff, assigned>>
    /\ UNCHANGED <<args, p1, p2, p, normality, homoscedasticity, sigTest, consulted, log, ref>>

ShapiroDiff ==
    Diagnose("L83", "L85", "shapiro", <<"diff">>, <<diff>>, "p")

ClassifyPaired ==
    /\ pc = "L85"
    /\ normality' = NormalityPaired(p, alpha)
    /\ assigned' = assigned \cup {"normality"}
    /\ consulted' = consulted \cup {"p"}
    /\ pc' = "L93"
    /\ UNCHANGED <<args, p1, p2, p, homoscedasticity, sigTest, diff, log, outcome, ref>>

PairedTTest ==
    FinalTest("L93", "L99", Reads93, Cond93, "Paired t-test", "ttest_1samp",
              <<"diff", "0">>, <<diff>>)

WilcoxonTest ==
    FinalTest("L99", "L103", Reads99, Cond99, "Wilcoxon test", "wilcoxon",
              <<"diff">>, <<diff>>)

ReturnPaired == Return("L103")

Step ==
    \/ Branch
    \/ ShapiroSample1 \/ ShapiroSample2 \/ ClassifyUnpaired \/ Bartlett
    \/ ClassifyVariance \/ TTest \/ WelchTest \/ UTest \/ ReturnUnpaired
    \/ CheckLengths \/ ComputeDiff \/ ShapiroDiff \/ ClassifyPaired
    \/ PairedTTest \/ WilcoxonTest \/ ReturnPaired

Next == Call \/ Step

\* ------------------------------------------------------ reading the log
UnpairedLabels == {"t-test", "Welch-test", "U-test"}
PairedLabels == {"Paired t-test", "Wilcoxon test"}
FinalPrims == {"ttest_ind_equal_var", "ttest_ind_unequal_var", "mannwhitneyu",
               "ttest_1samp", "wilcoxon"}
DiagnosticPrims == {"shapiro", "bartlett"}

Invoked(prim) == {i \in DOMAIN log : log[i].prim = prim}
FinalInvocations == {i \in DOMAIN log : log[i].prim \in FinalPrims}
InCall == pc # "idle"

PrimFor(label) ==
    CASE label = "t-test" -> "ttest_ind_equal_var"
      [] label = "Welch-test" -> "ttest_ind_unequal_var"
      [] label = "U-test" -> "mannwhitneyu"
      [] label = "Paired t-test" -> "ttest_1samp"
      [] label = "Wilcoxon test" -> "wilcoxon"
      [] OTHER -> "none"

OperandsFor(label) ==
    CASE label \in UnpairedLabels -> <<"sample1", "sample2">>
      [] label = "Paired t-test" -> <<"diff", "0">>
      [] label = "Wilcoxon test" -> <<"diff">>
      [] OTHER -> <<>>

\* ---------------------------------------------------------------- claims
\* C1: a call that returns hands back a label of its own mode: one of t-test,
\* Welch-test, U-test when paired is false, one of Paired t-test, Wilcoxon test
\* when paired is true, and nothing else.
C1_LabelOfOwnMode ==
    pc = "returned" =>
        /\ outcome.kind = "return"
        /\ Len(outcome.value) = 2
        /\ IF paired THEN outcome.value[2] \in PairedLabels
                     ELSE outcome.value[2] \in UnpairedLabels

C1_Witness ==
    pc = "returned" /\ paired /\ outcome.value = <<p, "Wilcoxon test">>

\* C2: a paired call with samples of different lengths ends with the
\* unequal-sample-sizes exception; no primitive has been invoked, the
\* differences have not been computed and nothing is returned.
C2_MismatchRaisesBeforeAnyTest ==
    (InCall /\ paired /\ Len(sample1.data) # Len(sample2.data)) =>
        /\ pc \in {"L30", "L75", "raised"}
        /\ log = <<>>
        /\ "diff" \notin assigned /\ diff = <<>>
        /\ pc = "raised" =>
              outcome = [kind |-> "error", value |-> <<>>,
                         err |-> "Unable to perform paired tests, unequal sample sizes."]

C2_Witness ==
    /\ pc = "raised" /\ paired /\ Len(sample1.data) > Len(sample2.data)
    /\ outcome.err = "Unable to perform paired tests, unequal sample sizes."

\* C3: an unpaired call that returns classified the pair normal exactly when
\* both Shapiro p-values are above alpha; its label is t-test iff normal and
\* the Bartlett p-value is >= alpha, Welch-test iff normal and the Bartlett
\* p-value is < alpha, U-test iff not normal.
C3_UnpairedSelection ==
    (pc = "returned" /\ ~paired) =>
        /\ Len(log) >= 3
        /\ log[1].prim = "shapiro" /\ log[1].operands = <<"sample1">>
        /\ log[2].prim = "shapiro" /\ log[2].operands = <<"sample2">>
        /\ LET normal == log[1].res.pvalue > alpha /\ log[2].res.pvalue > alpha
               pbs == {log[i].res.pvalue : i \in Invoked("bartlett")}
               label == outcome.value[2]
           IN  /\ normality = normal
               /\ (label = "t-test") = (normal /\ \E pb \in pbs : pb >= alpha)
               /\ (label = "Welch-test") = (normal /\ \E pb \in pbs : pb < alpha)
               /\ (label = "U-test") = ~normal

C3_Witness ==
    /\ pc = "returned" /\ ~paired /\ outcome.value[2] = "t-test"
    /\ \E i \in Invoked("bartlett") : log[i].res.pvalue = alpha

\* C4: a paired call that returns ran Shapiro-Wilk once, on the element-wise
\* difference sample1 - sample2 and on nothing else; its label is
\* Paired t-test iff that p-value is >= alpha and Wilcoxon test iff it is < alpha.
C4_PairedSelection ==
    /\ (InCall /\ paired) =>
          \A i \in Invoked("shapiro") : i = 1 /\ log[i].operands = <<"diff">>
    /\ (pc = "returned" /\ paired) =>
          /\ Invoked("shapiro") = {1}
          /\ Len(diff) = Len(sample1.data) /\ Len(diff) = Len(sample2.data)
          /\ \A i \in DOMAIN diff : diff[i] = sample1.data[i] - sample2.data[i]
          /\ log[1].vals = <<diff>>
          /\ LET pd == log[1].res.pvalue
                 label == outcome.value[2]
             IN  /\ (label = "Paired t-test") = (pd >= alpha)
                 /\ (label = "Wilcoxon test") = (pd < alpha)

C4_Witness ==
    /\ pc = "returned" /\ paired /\ outcome.value[2] = "Paired t-test"
    /\ log[1].res.pvalue = alpha
    /\ \E i \in DOMAIN diff : diff[i] # 0

\* C5: when both Shapiro p-values of an unpaired call equal alpha the pair is
\* classified normal, and the call returns t-test or Welch-test, never U-test.
C5_BoundaryIsNormal ==
    (InCall /\ ~paired /\ "normality" \in assigned /\ p1 = alpha /\ p2 = alpha) =>
        /\ normality
        /\ pc = "returned" => outcome.value[2] \in {"t-test", "Welch-test"}

\* C6: in an unpaired call classified non-normal Bartlett is never invoked and
\* homoscedasticity is neither assigned nor read; in one classified normal
\* Bartlett is invoked exactly once, after the two Shapiro-Wilk invocations
\* and before the final test.
C6_BartlettOnlyWhenNormal ==
    (InCall /\ ~paired) =>
        IF "normality" \notin assigned \/ (normality /\ pc = "L43")
        THEN Invoked("bartlett") = {}
        ELSE IF ~normality
        THEN /\ Invoked("bartlett") = {}
             /\ "homoscedasticity" \notin consulted
             /\ "homoscedasticity" \notin assigned
        ELSE /\ Invoked("bartlett") = {3}
             /\ Invoked("shapiro") = {1, 2}
             /\ \A i \in FinalInvocations : i > 3

C6_Witness ==
    /\ pc = "returned" /\ ~paired /\ outcome.value[2] = "U-test"
    /\ Invoked("bartlett") = {}
    /\ log[1].res.pvalue > alpha /\ log[2].res.pvalue < alpha

\* C7: the p-value returned is the one answered by the final test named by the
\* returned label, which is the last and only final test invoked in the call.
C7_ReturnedPFromFinalTest ==
    /\ InCall => Cardinality(FinalInvocations) <= 1
    /\ pc = "returned" =>
          /\ FinalInvocations = {Len(log)}
          /\ LET last == log[Len(log)]
             IN  /\ last.res.ok
                 /\ last.prim = PrimFor(outcome.value[2])
                 /\ last.operands = OperandsFor(outcome.value[2])
                 /\ outcome.value[1] = last.res.pvalue

C7_Witness ==
    /\ pc = "returned" /\ outcome.value[2] = "Welch-test"
    /\ \A i \in DOMAIN log :
          log[i].prim \in DiagnosticPrims => log[i].res.pvalue # outcome.value[1]

\* C8: a primitive that raises ends the call at once with that primitive's
\* error: it is the last invocation of the call and nothing is returned.  A
\* call that has ended has either returned a full [p, label] pair or raised,
\* and a call that has not ended can take a step.
C8_FailurePropagates ==
    /\ \A i \in DOMAIN log :
          ~log[i].res.ok =>
              /\ i = Len(log)
              /\ pc = "raised"
              /\ outcome = [kind |-> "error", value |-> <<>>, err |-> log[i].prim]
    /\ pc = "returned" =>
          /\ outcome.kind = "return" /\ outcome.err = ""
          /\ Len(outcome.value) = 2
          /\ outcome.value[1] \in PValues
          /\ outcome.value[2] \in UnpairedLabels \cup PairedLabels
    /\ pc = "raised" =>
          outcome.kind = "error" /\ outcome.value = <<>> /\ outcome.err # ""
    /\ (InCall /\ ~Finished) => (outcome = NoOutcome /\ ENABLED Step)

C8_Witness ==
    /\ pc = "raised" /\ Len(log) = 3
    /\ log[3].prim = "bartlett" /\ ~log[3].res.ok
    /\ outcome.err = "bartlett"

\* C9: a call that repeats the arguments of an earlier call, against
\* primitives that answer as they did before, invokes the same primitives in
\* the same order and ends with the same result or the same error.
C9_RepeatedCallAgrees ==
    (InCall /\ ref.set /\ ref.input = args) =>
        /\ Len(log) <= Len(ref.log)
        /\ log = SubSeq(ref.log, 1, Len(log))
        /\ Finished => (outcome = ref.outcome /\ log = ref.log)

C9_Witness ==
    /\ pc = "returned" /\ ref.set /\ ref.input = args
    /\ ~paired /\ Len(log) = 4 /\ outcome = ref.outcome

\* C10: no local is read before it is assigned (homoscedasticity is read only
\* when normality is true, where it has been assigned), and the return
\* statement is reached with sigTest and p assigned by exactly one final-test
\* branch.
C10_FlagsReadAfterAssigned ==
    /\ consulted \subseteq assigned
    /\ outcome.err # "UnboundLocalError"
    /\ "homoscedasticity" \in consulted => normality
    /\ pc \in {"L71", "L103"} =>
          /\ {"p", "sigTest"} \subseteq assigned
          /\ FinalInvocations = {Len(log)}
          /\ log[Len(log)].prim = PrimFor(sigTest)
          /\ p = log[Len(log)].res.pvalue

C10_Witness ==
    /\ pc = "L71" /\ ~normality
    /\ "homoscedasticity" \notin assigned
    /\ sigTest = "U-test"

Spec == Init /\ [][Next]_vars
====
